---------------------------- MODULE Spec2Model ----------------------------
(***************************************************************************)
(* Model of src/src/service.rs: the Service facade of the node.            *)
(*                                                                         *)
(* Event path: background tasks push Event values on a bounded             *)
(* futures::channel::mpsc channel (events_in); Service::next_event pops    *)
(* one, refreshes num_network_connections from the shared atomic counter   *)
(* and updates the best / finalized head fields.                           *)
(*                                                                         *)
(* Query path: Service::best_effort_block_hash pushes a BlockHashGet       *)
(* request with a oneshot reply slot on the to_database channel through a  *)
(* fresh clone of the sender and awaits the reply.                         *)
(*                                                                         *)
(* The channels follow futures 0.3 mpsc: a send pushes its message and     *)
(* parks the sender when the number of queued messages then exceeds the    *)
(* buffer; Sink::send completes only after its flush finds the sender      *)
(* unparked; the receiver unparks the longest-parked sender on every pop.  *)
(***************************************************************************)
EXTENDS Integers, Sequences, FiniteSets, TLC

(***************************************************************************)
(* Bounds of the model.                                                    *)
(***************************************************************************)
\* size of the buffer of the Event Channel (set by the builder)
EventsBuffer == 1
\* total number of events the producers enqueue in one behaviour
MaxSends == 3
\* largest value the shared connection counter takes
MaxConnections == 1
\* number of events enqueued in the runs that follow the connection counter
MaxConnSends == 2
\* size of the buffer of the Database Request Channel (set by the builder)
DbBuffer == 0
\* number of concurrent callers of best_effort_block_hash
NumCallers == 2
MaxFrameSends == 1

(***************************************************************************)
(* Values.                                                                 *)
(***************************************************************************)
\* a [u8; 32] value, abstracted to a name
Bytes32 == {"0xAA", "0xBB"}

\* primitive_types::H256 is a newtype around [u8; 32]
H256(b) == [h256 |-> b]

\* (*hash).into(): H256 -> [u8; 32] unwraps the newtype
H256Into(h) == h.h256

ChainHeadUpdate == {"NoUpdate", "FastForward", "Reorg"}

NewChainHead(n, h, u) ==
    [tag |-> "NewChainHead", number |-> n, hash |-> h, head_update |-> u]

NewFinalized(n, h) == [tag |-> "NewFinalized", number |-> n, hash |-> h]

BlockAnnounceReceived(n, h) ==
    [tag |-> "BlockAnnounceReceived", number |-> n, hash |-> h]

NewNetworkExternalAddress(a) ==
    [tag |-> "NewNetworkExternalAddress", address |-> a]

\* the background tasks that hold a sender of the Event Channel
Producers == {"network_task", "sync_task"}

\* the events of the network task in a run
NetworkEvents ==
    {BlockAnnounceReceived(2, H256("0xAA")),
     NewNetworkExternalAddress("/ip4/1.2.3.4/p2p/id")}

\* the events of the sync / block-import task in a run: block 2 extends the
\* chain, block 1 of another branch replaces it or is merely recorded
SyncEvents ==
    {NewChainHead(2, H256("0xAA"), "FastForward"),
     NewChainHead(1, H256("0xBB"), "Reorg"),
     NewChainHead(1, H256("0xBB"), "NoUpdate"),
     NewFinalized(2, H256("0xAA")),
     NewFinalized(1, H256("0xBB"))}

\* what each task emits
EventsOf(p) == IF p = "network_task" THEN NetworkEvents ELSE SyncEvents

\* Option<T>
None == <<"None">>
Some(x) == <<"Some", x>>

\* heights asked for, and concurrent callers of best_effort_block_hash
Heights == {5, 6}
Callers == 1..NumCallers

NoEvent == [tag |-> "none"]

VARIABLES
    events_in,                \* queue of the Event Channel: <<[ev, src, seq]>>
    events_parked,            \* parked senders of the Event Channel, oldest first
    prod_pc,                  \* per producer: "running", "flushing", "terminated"
    prod_sent,                \* per producer: number of events it has pushed
    num_connections_store,    \* the shared AtomicU64
    num_network_connections,  \* Service fields
    best_block_number,
    best_block_hash,
    finalized_block_number,
    finalized_block_hash,
    svc_pc,                   \* "idle", "awaiting", "received", "panicked"
    event,                    \* local `event` of next_event
    returned,                 \* history: entries next_event has returned
    conn_at_dequeue,          \* the shared counter when the last event was dequeued
    conn_reads,               \* <<value, lagging>>: what num_network_connections()
                              \* returned since the last completed next_event,
                              \* and whether the counter differed at that read
    delivered,                \* history: entries pushed on the Event Channel
    call_view,                \* what the channel looked like when the pending
                              \* next_event call was made
    to_database,              \* queue of the Database Request Channel
    db_parked,                \* parked sender clones, oldest first
    db_alive,                 \* the database task holds the receiver
    database,                 \* the database task's block hashes by height
    call_pc,                  \* per caller: "idle", "flushing", "awaiting",
                              \* "returned", "panicked"
    call_num,                 \* per caller: argument `num`
    reply,                    \* per caller: state of the oneshot channel
    call_result,              \* per caller: value the call returned
    serviced,                 \* per caller: height and record the database
                              \* task read when it serviced the request
    db_taken,                 \* requests the database task received and has
                              \* not answered yet, oldest first
    overtook,                 \* per caller: its answer came before that of a
                              \* request received earlier
    call_stats                \* per caller: requests sent and replies consumed
                              \* by its current call

evvars == <<events_in, events_parked, prod_pc, prod_sent, num_connections_store,
            num_network_connections, best_block_number, best_block_hash,
            finalized_block_number, finalized_block_hash, svc_pc, event,
            returned, conn_reads, delivered, call_view, conn_at_dequeue>>

snapshot == <<num_network_connections, best_block_number, best_block_hash,
              finalized_block_number, finalized_block_hash>>

dbvars == <<to_database, db_parked, db_alive, database, call_pc, call_num,
            reply, call_result, serviced, db_taken, overtook, call_stats>>

vars == <<evvars, dbvars>>

(***************************************************************************)
(* futures::channel::mpsc, as used by both channels.                       *)
(***************************************************************************)
\* mutant: the message goes to the front of the queue
ChanPush_Front(queue, msg) == <<msg>> \o queue

\* BoundedSenderInner::do_send_b: the message is always pushed
ChanPush(queue, msg) == Append(queue, msg)

\* mutant: the new message is not counted
ChanParkSelf_Late(queue, buffer) == Len(queue) > buffer

\* do_send_b: park_self = num_messages > buffer, counted with the new message
ChanParkSelf(queue, buffer) == Len(queue) + 1 > buffer

\* Receiver::next_message: pop the oldest message
ChanPop(queue) == Tail(queue)

\* mutant: the receiver hands out the newest message
ChanFront_Newest(queue) == queue[Len(queue)]

\* Receiver::next_message: the message handed out
ChanFront(queue) == Head(queue)

\* Receiver::unpark_one: release the longest-parked sender, if any
ChanUnparkOne(parked) == IF parked = <<>> THEN parked ELSE Tail(parked)

IsParked(parked, s) == \E i \in 1..Len(parked) : parked[i] = s

\* all senders dropped: the receiver sees None once the queue is empty
EventsClosed == \A p \in Producers : prod_pc[p] = "terminated"

TotalSent == prod_sent["network_task"] + prod_sent["sync_task"]

(***************************************************************************)
(* Read accessors of Service.                                              *)
(***************************************************************************)
\* mutant: the accessor loads the shared counter
Service_num_network_connections_Live == num_connections_store

Service_num_network_connections == num_network_connections
Service_best_block_number == best_block_number
Service_best_block_hash == best_block_hash
Service_finalized_block_number == finalized_block_number
Service_finalized_block_hash == finalized_block_hash

(***************************************************************************)
(* Initial state: the Service as constructed by the builder.               *)
(***************************************************************************)
InitEv ==
    /\ events_in = <<>>
    /\ events_parked = <<>>
    /\ prod_pc = [p \in Producers |-> "running"]
    /\ prod_sent = [p \in Producers |-> 0]
    /\ num_connections_store = 0
    /\ num_network_connections = 0
    /\ best_block_number = 0
    /\ best_block_hash = "0x00"
    /\ finalized_block_number = 0
    /\ finalized_block_hash = "0x00"
    /\ svc_pc = "idle"
    /\ event = NoEvent
    /\ returned = <<>>
    /\ conn_reads = {}
    /\ conn_at_dequeue = 0
    /\ delivered = <<>>
    /\ call_view = "none"

InitDb ==
    /\ to_database = <<>>
    /\ db_parked = <<>>
    /\ db_alive = TRUE
    /\ database = [h \in Heights |-> IF h = 5 THEN Some("0xAA") ELSE None]
    /\ call_pc = [c \in Callers |-> "idle"]
    /\ call_num = [c \in Callers |-> 5]
    /\ reply = [c \in Callers |-> <<"none">>]
    /\ call_result = [c \in Callers |-> <<"pending">>]
    /\ serviced = [c \in Callers |-> <<"pending">>]
    /\ db_taken = <<>>
    /\ overtook = [c \in Callers |-> FALSE]
    /\ call_stats = [c \in Callers |-> [sent |-> 0, received |-> 0]]

Init == InitEv /\ InitDb

(***************************************************************************)
(* Background tasks.                                                       *)
(***************************************************************************)
\* a task runs `sender.send(e).await`: push, park when over the buffer
ProducerSend(p, e) ==
    /\ prod_pc[p] = "running"
    /\ TotalSent < MaxSends
    /\ LET entry == [ev |-> e, src |-> p, seq |-> prod_sent[p] + 1] IN
         /\ events_in' = ChanPush(events_in, entry)
         /\ delivered' = Append(delivered, entry)
    /\ prod_sent' = [prod_sent EXCEPT ![p] = @ + 1]
    /\ IF ChanParkSelf(events_in, EventsBuffer)
       THEN /\ events_parked' = Append(events_parked, p)
            /\ prod_pc' = [prod_pc EXCEPT ![p] = "flushing"]
       ELSE UNCHANGED <<events_parked, prod_pc>>
    /\ UNCHANGED <<dbvars, conn_at_dequeue, num_connections_store, snapshot, svc_pc, event,
                   returned, conn_reads, call_view>>

\* the flush of a send completes once the sender is unparked
ProducerFlushed(p) ==
    /\ prod_pc[p] = "flushing"
    /\ ~IsParked(events_parked, p)
    /\ prod_pc' = [prod_pc EXCEPT ![p] = "running"]
    /\ UNCHANGED <<dbvars, conn_at_dequeue, events_in, events_parked, prod_sent,
                   num_connections_store, snapshot, svc_pc, event, returned,
                   conn_reads, delivered, call_view>>

\* a task ends and drops its sender
ProducerTerminate(p) ==
    /\ prod_pc[p] = "running"
    /\ prod_pc' = [prod_pc EXCEPT ![p] = "terminated"]
    /\ UNCHANGED <<dbvars, conn_at_dequeue, events_in, events_parked, prod_sent,
                   num_connections_store, snapshot, svc_pc, event, returned,
                   conn_reads, delivered, call_view>>

\* the network task counts a new transport-level connection
ConnectionOpened ==
    /\ prod_pc["network_task"] # "terminated"
    /\ num_connections_store < MaxConnections
    /\ num_connections_store' = num_connections_store + 1
    /\ UNCHANGED <<dbvars, conn_at_dequeue, events_in, events_parked, prod_pc, prod_sent, snapshot,
                   svc_pc, event, returned, conn_reads, delivered, call_view>>

\* the network task counts a closed connection
ConnectionClosed ==
    /\ prod_pc["network_task"] # "terminated"
    /\ num_connections_store > 0
    /\ num_connections_store' = num_connections_store - 1
    /\ UNCHANGED <<dbvars, conn_at_dequeue, events_in, events_parked, prod_pc, prod_sent, snapshot,
                   svc_pc, event, returned, conn_reads, delivered, call_view>>

(***************************************************************************)
(* Service::next_event.                                                    *)
(***************************************************************************)
\* what the caller would find on the channel
ChannelView ==
    IF ~EventsClosed THEN (IF events_in = <<>> THEN "open_empty" ELSE "open")
    ELSE IF events_in = <<>> THEN "closed_empty" ELSE "closed_buffered"

\* the caller starts next_event and awaits events_in.next()
NextEventCall ==
    /\ svc_pc = "idle"
    /\ svc_pc' = "awaiting"
    /\ call_view' = ChannelView
    /\ UNCHANGED <<dbvars, conn_at_dequeue, events_in, events_parked, prod_pc, prod_sent,
                   num_connections_store, snapshot, event, returned, conn_reads,
                   delivered>>

\* mutant: the receiver does not notice that the last sender was dropped
EventsNext_NeverNone ==
    IF events_in # <<>> THEN Some(ChanFront(events_in)) ELSE <<"Pending">>

\* mutant: a closed channel yields None at once and drops what is buffered
EventsNext_ClosedFirst ==
    IF EventsClosed THEN None
    ELSE IF events_in # <<>> THEN Some(ChanFront(events_in))
    ELSE <<"Pending">>

\* Receiver::poll_next: the oldest message, None once closed and drained
EventsNext ==
    IF events_in # <<>> THEN Some(ChanFront(events_in))
    ELSE IF EventsClosed THEN None
    ELSE <<"Pending">>

\* mutant: None is swallowed and the call keeps waiting
UnwrapEvent_Retry(o) == IF o[1] = "Some" THEN <<"value", o[2]>> ELSE <<"retry">>

\* line 119: Option::unwrap on what events_in.next() yields
UnwrapEvent(o) == IF o[1] = "Some" THEN <<"value", o[2]>> ELSE <<"panic">>

\* line 119: events_in.next() yields Some(event)
NextEventRecv ==
    /\ svc_pc = "awaiting"
    /\ EventsNext # <<"Pending">>
    /\ UnwrapEvent(EventsNext)[1] = "value"
    /\ event' = UnwrapEvent(EventsNext)[2]
    /\ events_in' = ChanPop(events_in)
    /\ events_parked' = ChanUnparkOne(events_parked)
    /\ svc_pc' = "received"
    /\ conn_at_dequeue' = num_connections_store
    /\ UNCHANGED <<dbvars, prod_pc, prod_sent, num_connections_store, snapshot,
                   returned, conn_reads, delivered, call_view>>

\* mutant: the counter is read when the event is dequeued, not afterwards
LoadConnections_AtDequeue == conn_at_dequeue

\* line 121: the load of the shared counter
LoadConnections == num_connections_store

\* mutant: the classification gates the update
UpdateBest_SkipNoUpdate(ev) ==
    IF ev.tag = "NewChainHead" /\ ev.head_update # "NoUpdate"
    THEN <<ev.number, H256Into(ev.hash)>>
    ELSE <<best_block_number, best_block_hash>>

\* lines 125-128: the new best head
UpdateBest(ev) ==
    IF ev.tag = "NewChainHead"
    THEN <<ev.number, H256Into(ev.hash)>>
    ELSE <<best_block_number, best_block_hash>>

\* mutant: a new chain head moves the finalized head as well
UpdateFinalized_AnyHead(ev) ==
    IF ev.tag \in {"NewFinalized", "NewChainHead"}
    THEN <<ev.number, H256Into(ev.hash)>>
    ELSE <<finalized_block_number, finalized_block_hash>>

\* mutant: the finalized head only moves to a higher number
UpdateFinalized_OnlyHigher(ev) ==
    IF ev.tag = "NewFinalized" /\ ev.number > finalized_block_number
    THEN <<ev.number, H256Into(ev.hash)>>
    ELSE <<finalized_block_number, finalized_block_hash>>

\* lines 129-132: the new finalized head
UpdateFinalized(ev) ==
    IF ev.tag = "NewFinalized"
    THEN <<ev.number, H256Into(ev.hash)>>
    ELSE <<finalized_block_number, finalized_block_hash>>

\* mutant: the event is rebuilt from the snapshot and loses head_update
ReturnedEvent_Rebuilt(entry) ==
    IF entry.ev.tag = "NewChainHead"
    THEN [entry EXCEPT !.ev = NewChainHead(entry.ev.number, entry.ev.hash,
                                           "NoUpdate")]
    ELSE entry

\* line 136: the value next_event hands back
ReturnedEvent(entry) == entry

\* lines 121-136: the rest of next_event after the dequeue, up to the return
NextEventUpdate ==
    /\ svc_pc = "received"
    /\ num_network_connections' = LoadConnections
    /\ best_block_number' = UpdateBest(event.ev)[1]
    /\ best_block_hash' = UpdateBest(event.ev)[2]
    /\ finalized_block_number' = UpdateFinalized(event.ev)[1]
    /\ finalized_block_hash' = UpdateFinalized(event.ev)[2]
    /\ returned' = Append(returned, ReturnedEvent(event))
    /\ event' = NoEvent
    /\ svc_pc' = "idle"
    /\ conn_reads' = {}
    /\ call_view' = "none"
    /\ UNCHANGED <<dbvars, conn_at_dequeue, events_in, events_parked, prod_pc, prod_sent,
                   num_connections_store, delivered>>

\* mutant: the counter is loaded before the channel's answer is unwrapped
NextEventClosed_LoadsFirst ==
    /\ svc_pc = "awaiting"
    /\ EventsNext # <<"Pending">>
    /\ UnwrapEvent(EventsNext)[1] = "panic"
    /\ svc_pc' = "panicked"
    /\ num_network_connections' = LoadConnections
    /\ UNCHANGED <<dbvars, conn_at_dequeue, events_in, events_parked, prod_pc,
                   prod_sent, num_connections_store, best_block_number,
                   best_block_hash, finalized_block_number,
                   finalized_block_hash, event, returned, conn_reads, delivered,
                   call_view>>

\* line 119: events_in.next() yields None and unwrap() panics
NextEventClosed ==
    /\ svc_pc = "awaiting"
    /\ EventsNext # <<"Pending">>
    /\ UnwrapEvent(EventsNext)[1] = "panic"
    /\ svc_pc' = "panicked"
    /\ UNCHANGED <<dbvars, conn_at_dequeue, events_in, events_parked, prod_pc, prod_sent,
                   num_connections_store, snapshot, event, returned, conn_reads,
                   delivered, call_view>>

\* mutant: the accessor refreshes the cached counter before it returns it
NumNetworkConnectionsRead_Refresh ==
    /\ svc_pc = "idle"
    /\ num_network_connections' = num_connections_store
    /\ conn_reads' = conn_reads \cup {<<num_connections_store, FALSE>>}
    /\ UNCHANGED <<dbvars, conn_at_dequeue, events_in, events_parked, prod_pc,
                   prod_sent, num_connections_store, best_block_number,
                   best_block_hash, finalized_block_number,
                   finalized_block_hash, svc_pc, event, returned, delivered,
                   call_view>>

\* a call of num_network_connections() between two next_event calls; the
\* value it returns is recorded, and whether the counter differs at that moment
NumNetworkConnectionsRead ==
    /\ svc_pc = "idle"
    /\ conn_reads' = conn_reads \cup
                       {<<Service_num_network_connections,
                          Service_num_network_connections # num_connections_store>>}
    /\ UNCHANGED <<dbvars, conn_at_dequeue, events_in, events_parked, prod_pc, prod_sent,
                   num_connections_store, snapshot, svc_pc, event, returned,
                   delivered, call_view>>

\* ProducerSend in the runs that follow the connection counter
ProducerSendFew(p, e) == TotalSent < MaxConnSends /\ ProducerSend(p, e)

\* the tasks' other steps and next_event
NextService ==
    \/ \E p \in Producers : ProducerFlushed(p)
    \/ \E p \in Producers : ProducerTerminate(p)
    \/ NextEventCall
    \/ NextEventRecv
    \/ NextEventUpdate
    \/ NextEventClosed

\* the event path: the counter stays as constructed
NextEv ==
    \/ \E p \in Producers : \E e \in EventsOf(p) : ProducerSend(p, e)
    \/ NextService

\* the event path with the network task moving the connection counter
NextConn ==
    \/ \E p \in Producers : \E e \in EventsOf(p) : ProducerSendFew(p, e)
    \/ NextService
    \/ ConnectionOpened
    \/ ConnectionClosed
    \/ NumNetworkConnectionsRead

(***************************************************************************)
(* Service::best_effort_block_hash and the database task.                  *)
(***************************************************************************)
\* mutant: the request carries another height than the one asked for
BlockHashGet_OtherHeight(c, num) ==
    [block_number |-> CHOOSE h \in Heights : h # num, send_back |-> c]

\* mutant: every request carries the reply slot of the first caller
BlockHashGet_SharedSlot(c, num) == [block_number |-> num, send_back |-> 1]

\* ToDatabase::BlockHashGet { block_number: num, send_back: tx }
BlockHashGet(c, num) == [block_number |-> num, send_back |-> c]

\* oneshot: Sender::send(v), and the sender dropped without a value
SlotValue(v) == <<"value", v>>
SlotDropped == <<"dropped">>
SlotEmpty == <<"empty">>

\* line 171-177: a oneshot channel, then send through a clone of to_database
BlockHashCall(c, num) ==
    /\ call_pc[c] \in {"idle", "returned"}
    /\ call_num' = [call_num EXCEPT ![c] = num]
    /\ call_result' = [call_result EXCEPT ![c] = <<"pending">>]
    /\ serviced' = [serviced EXCEPT ![c] = <<"pending">>]
    /\ IF ~db_alive
       THEN \* the send fails: unwrap() panics, tx and rx are dropped
            /\ call_pc' = [call_pc EXCEPT ![c] = "panicked"]
            /\ reply' = [reply EXCEPT ![c] = <<"none">>]
            /\ UNCHANGED <<to_database, db_parked>>
       ELSE /\ to_database' = ChanPush(to_database, BlockHashGet(c, num))
            /\ reply' = [reply EXCEPT ![c] = SlotEmpty]
            /\ IF ChanParkSelf(to_database, DbBuffer)
               THEN /\ db_parked' = Append(db_parked, c)
                    /\ call_pc' = [call_pc EXCEPT ![c] = "flushing"]
               ELSE /\ db_parked' = db_parked
                    /\ call_pc' = [call_pc EXCEPT ![c] = "awaiting"]
    /\ overtook' = [overtook EXCEPT ![c] = FALSE]
    /\ call_stats' = [call_stats EXCEPT
                        ![c] = [sent |-> Len(to_database') - Len(to_database),
                                received |-> 0]]
    /\ UNCHANGED <<evvars, db_alive, database, db_taken>>

\* line 177: the flush of the send completes; the clone is dropped
BlockHashFlushed(c) ==
    /\ call_pc[c] = "flushing"
    /\ ~IsParked(db_parked, c)
    /\ call_pc' = [call_pc EXCEPT ![c] = "awaiting"]
    /\ UNCHANGED <<evvars, to_database, db_parked, db_alive, database, call_num,
                   reply, call_result, serviced, db_taken, overtook, call_stats>>

\* line 179: what rx.await yields for a resolved slot
RxAwait(slot) ==
    IF slot[1] = "value" THEN <<"Ok", slot[2]>> ELSE <<"Err", "Canceled">>

\* mutant: a cancelled reply is turned into None
UnwrapReply_OrNone(r) ==
    IF r[1] = "Ok" THEN <<"return", r[2]>> ELSE <<"return", None>>

\* mutant: a cancelled reply is handed back as an error value
UnwrapReply_ErrValue(r) ==
    IF r[1] = "Ok" THEN <<"return", r[2]>>
    ELSE <<"return", <<"Err", "BackgroundTasksTerminated">>>>

\* line 179: Result::unwrap on what rx.await yields
UnwrapReply(r) == IF r[1] = "Ok" THEN <<"return", r[2]>> ELSE <<"panic">>

\* mutant: the call resolves on a value only and never notices a dropped slot
BlockHashResolve_ValueOnly(c) ==
    /\ call_pc[c] = "awaiting"
    /\ reply[c][1] = "value"
    /\ call_result' = [call_result EXCEPT ![c] = reply[c][2]]
    /\ call_pc' = [call_pc EXCEPT ![c] = "returned"]
    /\ call_stats' = [call_stats EXCEPT ![c].received = @ + 1]
    /\ UNCHANGED <<evvars, to_database, db_parked, db_alive, database, call_num,
                   reply, serviced, db_taken, overtook>>

\* mutant: an answer of None makes the call send its request once more
BlockHashResolve_RetryOnNone(c) ==
    /\ call_pc[c] = "awaiting"
    /\ reply[c] # SlotEmpty
    /\ LET out == UnwrapReply(RxAwait(reply[c])) IN
         IF out = <<"return", None>> /\ db_alive
         THEN /\ to_database' = ChanPush(to_database, BlockHashGet(c, call_num[c]))
              /\ reply' = [reply EXCEPT ![c] = SlotEmpty]
              /\ call_stats' = [call_stats EXCEPT ![c].sent = @ + 1,
                                                  ![c].received = @ + 1]
              /\ UNCHANGED <<call_result, call_pc>>
         ELSE /\ IF out[1] = "return"
                 THEN /\ call_result' = [call_result EXCEPT ![c] = out[2]]
                      /\ call_pc' = [call_pc EXCEPT ![c] = "returned"]
                 ELSE /\ call_result' = call_result
                      /\ call_pc' = [call_pc EXCEPT ![c] = "panicked"]
              /\ call_stats' = [call_stats EXCEPT ![c].received = @ + 1]
              /\ UNCHANGED <<to_database, reply>>
    /\ UNCHANGED <<evvars, db_parked, db_alive, database, call_num, serviced,
                   db_taken, overtook>>

\* line 179: the call resolves once the slot holds a value or was dropped
BlockHashResolve(c) ==
    /\ call_pc[c] = "awaiting"
    /\ reply[c] # SlotEmpty
    /\ LET out == UnwrapReply(RxAwait(reply[c])) IN
         IF out[1] = "return"
         THEN /\ call_result' = [call_result EXCEPT ![c] = out[2]]
              /\ call_pc' = [call_pc EXCEPT ![c] = "returned"]
         ELSE /\ call_result' = call_result
              /\ call_pc' = [call_pc EXCEPT ![c] = "panicked"]
    /\ call_stats' = [call_stats EXCEPT ![c].received = @ + 1]
    /\ UNCHANGED <<evvars, to_database, db_parked, db_alive, database, call_num,
                   reply, serviced, db_taken, overtook>>

\* the database task's lookup of a height
DbLookup(h) == database[h]

\* the database task takes the oldest request and answers it
DbAnswer ==
    /\ db_alive
    /\ to_database # <<>>
    /\ LET req == ChanFront(to_database) IN
         /\ reply' = [reply EXCEPT
                        ![req.send_back] = SlotValue(DbLookup(req.block_number))]
         /\ serviced' = [serviced EXCEPT
                        ![req.send_back] =
                            <<req.block_number, DbLookup(req.block_number)>>]
         /\ overtook' = [overtook EXCEPT ![req.send_back] = db_taken # <<>>]
    /\ to_database' = ChanPop(to_database)
    /\ db_parked' = ChanUnparkOne(db_parked)
    /\ UNCHANGED <<evvars, db_alive, database, call_pc, call_num, call_result,
                   db_taken, call_stats>>

\* the database task takes the oldest request and works on it in the background
DbTake ==
    /\ db_alive
    /\ to_database # <<>>
    /\ db_taken' = Append(db_taken, ChanFront(to_database))
    /\ to_database' = ChanPop(to_database)
    /\ db_parked' = ChanUnparkOne(db_parked)
    /\ UNCHANGED <<evvars, db_alive, database, call_pc, call_num, reply,
                   call_result, serviced, overtook, call_stats>>

\* the database task answers the i-th of the requests it is working on
DbAnswerTaken(i) ==
    /\ db_alive
    /\ i \in 1..Len(db_taken)
    /\ LET req == db_taken[i] IN
         /\ reply' = [reply EXCEPT
                        ![req.send_back] = SlotValue(DbLookup(req.block_number))]
         /\ serviced' = [serviced EXCEPT
                        ![req.send_back] =
                            <<req.block_number, DbLookup(req.block_number)>>]
         /\ overtook' = [overtook EXCEPT ![req.send_back] = i > 1]
    /\ db_taken' = SubSeq(db_taken, 1, i - 1) \o
                      SubSeq(db_taken, i + 1, Len(db_taken))
    /\ UNCHANGED <<evvars, to_database, db_parked, db_alive, database, call_pc,
                   call_num, call_result, call_stats>>

\* the database task takes the oldest request and drops its reply slot
DbDropReply ==
    /\ db_alive
    /\ to_database # <<>>
    /\ reply' = [reply EXCEPT ![ChanFront(to_database).send_back] = SlotDropped]
    /\ to_database' = ChanPop(to_database)
    /\ db_parked' = ChanUnparkOne(db_parked)
    /\ UNCHANGED <<evvars, db_alive, database, call_pc, call_num, call_result,
                   serviced, db_taken, overtook, call_stats>>

\* the database task ends: the receiver is dropped with every queued request
DbTerminate ==
    /\ db_alive
    /\ db_alive' = FALSE
    /\ reply' = [c \in Callers |->
                    IF \E i \in 1..Len(to_database \o db_taken) :
                           (to_database \o db_taken)[i].send_back = c
                    THEN SlotDropped ELSE reply[c]]
    /\ to_database' = <<>>
    /\ db_taken' = <<>>
    /\ db_parked' = <<>>
    /\ UNCHANGED <<evvars, database, call_pc, call_num, call_result, serviced,
                   overtook, call_stats>>

\* the database changes: a block is recorded, replaced or pruned
DbWrite(h, v) ==
    /\ db_alive
    /\ database[h] # v
    /\ database' = [database EXCEPT ![h] = v]
    /\ UNCHANGED <<evvars, to_database, db_parked, db_alive, call_pc, call_num,
                   reply, call_result, serviced, db_taken, overtook, call_stats>>

NextDb ==
    \/ \E c \in Callers : \E num \in Heights : BlockHashCall(c, num)
    \/ \E c \in Callers : BlockHashFlushed(c)
    \/ \E c \in Callers : BlockHashResolve(c)
    \/ DbAnswer
    \/ DbTake
    \/ \E i \in 1..NumCallers : DbAnswerTaken(i)
    \/ DbDropReply
    \/ DbTerminate
    \/ \E h \in Heights : \E v \in {None} \cup {Some(b) : b \in Bytes32} :
          DbWrite(h, v)

Next == NextEv \/ NextConn \/ NextDb

\* the whole service
Spec == Init /\ [][Next]_vars

\* the event path alone: the query path shares no state with it, and the
\* head fields neither read nor write the connection counter
SpecEv == Init /\ [][NextEv]_vars

\* the event path when the task that awaits next_event is polled whenever
\* the channel has something for it: an event, or the end of the stream
FairSpecEv ==
    /\ SpecEv
    /\ WF_vars(NextEventRecv)
    /\ WF_vars(NextEventUpdate)
    /\ WF_vars(NextEventClosed)

\* the event path with the connection counter and the accessor calls
SpecConn == Init /\ [][NextConn]_vars

\* the query path alone
SpecDb == Init /\ [][NextDb]_vars

\* the runs in which background tasks end: no event is enqueued and the
\* content of the database does not change
NextFatal ==
    \/ \E p \in Producers : ProducerTerminate(p)
    \/ NextEventCall
    \/ NextEventClosed
    \/ \E c \in Callers : \E num \in Heights : BlockHashCall(c, num)
    \/ \E c \in Callers : BlockHashFlushed(c)
    \/ \E c \in Callers : BlockHashResolve(c)
    \/ DbAnswer
    \/ DbDropReply
    \/ DbTerminate

SpecFatal == Init /\ [][NextFatal]_vars

\* ProducerSend in the runs where events and queries go on side by side
ProducerSendOne(p, e) == TotalSent < MaxFrameSends /\ ProducerSend(p, e)

\* both paths together: the events of ProducerSendOne, the connection
\* counter, the accessor, and the queries of one caller answered in order
NextFrame ==
    \/ \E p \in Producers : \E e \in EventsOf(p) : ProducerSendOne(p, e)
    \/ NextEventCall
    \/ NextEventRecv
    \/ NextEventUpdate
    \/ ConnectionOpened
    \/ ConnectionClosed
    \/ NumNetworkConnectionsRead
    \/ \E num \in Heights : BlockHashCall(1, num)
    \/ BlockHashFlushed(1)
    \/ BlockHashResolve(1)
    \/ DbAnswer

SpecFrame == Init /\ [][NextFrame]_vars

\* the queries while events of the network task pile up in the Event Channel
\* and nobody calls next_event; the content of the database does not change
NextQuery ==
    \/ \E e \in EventsOf("network_task") : ProducerSendOne("network_task", e)
    \/ \E c \in Callers : \E num \in Heights : BlockHashCall(c, num)
    \/ \E c \in Callers : BlockHashFlushed(c)
    \/ \E c \in Callers : BlockHashResolve(c)
    \/ DbAnswer
    \/ DbTake
    \/ \E i \in 1..NumCallers : DbAnswerTaken(i)
    \/ DbDropReply
    \/ DbTerminate

\* the database task receives the oldest request
DbReceives == DbAnswer \/ DbTake \/ DbDropReply

\* the database task resolves the reply slot of caller c
DbServes(c) ==
    \/ /\ to_database # <<>>
       /\ ChanFront(to_database).send_back = c
       /\ (DbAnswer \/ DbDropReply)
    \/ \E i \in 1..Len(db_taken) : db_taken[i].send_back = c /\ DbAnswerTaken(i)

\* the query path under fair scheduling: the database task, while it lives,
\* keeps receiving requests and leaves none unanswered, and a caller's task
\* is polled when its send can complete or its reply slot resolved
FairSpecQuery ==
    /\ Init /\ [][NextQuery]_vars
    /\ WF_vars(DbReceives)
    /\ \A c \in Callers : WF_vars(DbServes(c))
    /\ \A c \in Callers : WF_vars(BlockHashFlushed(c))
    /\ \A c \in Callers : WF_vars(BlockHashResolve(c))

(***************************************************************************)
(* Properties.                                                             *)
(***************************************************************************)
LastReturned == returned[Len(returned)]

\* entries dequeued or queued that next_event has not returned yet
PendingEntries == (IF event = NoEvent THEN <<>> ELSE <<event>>) \o events_in

\* the send of producer p has not completed: it waits to be unparked
Stalled(p) == prod_pc[p] = "flushing" /\ IsParked(events_parked, p)

OptionHashes == {None} \cup {Some(b) : b \in Bytes32}

\* C1: after next_event returned a NewChainHead event, best_block_number()
\* and best_block_hash() are the number and hash of that event, whatever its
\* head_update and whatever the previous best head was.
C1_BestHeadFollowsEvent ==
    (returned # <<>> /\ LastReturned.ev.tag = "NewChainHead") =>
        /\ Service_best_block_number = LastReturned.ev.number
        /\ H256(Service_best_block_hash) = LastReturned.ev.hash

\* all three classifications consumed; the last is NoUpdate with a lower number
C1_Witness ==
    /\ Len(returned) = 3
    /\ returned[1].ev = NewChainHead(1, H256("0xBB"), "Reorg")
    /\ returned[2].ev = NewChainHead(2, H256("0xAA"), "FastForward")
    /\ returned[3].ev = NewChainHead(1, H256("0xBB"), "NoUpdate")
    /\ Service_best_block_number = 1
    /\ Service_best_block_hash = "0xBB"

\* C2: the steps of a next_event call that consumes NewFinalized leave the
\* best head unchanged, and those of a call that consumes any other event leave
\* the finalized head unchanged.
C2_HeadFrames ==
    [][/\ (svc_pc = "awaiting" /\ svc_pc' = "received") =>
            UNCHANGED <<best_block_number, best_block_hash,
                        finalized_block_number, finalized_block_hash>>
       /\ (svc_pc = "received" /\ svc_pc' = "idle") =>
            /\ event.ev.tag = "NewFinalized" =>
                 UNCHANGED <<best_block_number, best_block_hash>>
            /\ event.ev.tag \in {"NewChainHead", "BlockAnnounceReceived",
                                 "NewNetworkExternalAddress"} =>
                 UNCHANGED <<finalized_block_number, finalized_block_hash>>
      ]_vars

\* a chain head, a finalized head and an announce consumed: both heads stand
C2_Witness ==
    /\ Len(returned) = 3
    /\ returned[1].ev = NewFinalized(1, H256("0xBB"))
    /\ returned[2].ev = NewChainHead(2, H256("0xAA"), "FastForward")
    /\ returned[3].ev.tag = "BlockAnnounceReceived"
    /\ <<best_block_number, best_block_hash>> = <<2, "0xAA">>
    /\ <<finalized_block_number, finalized_block_hash>> = <<1, "0xBB">>

\* C3: the calls of num_network_connections() made between two completed
\* next_event calls all return the same value, while the counter moves.
C3_StableBetweenEvents ==
    \A r1 \in conn_reads : \A r2 \in conn_reads : r1[1] = r2[1]

\* after a consumption, one read found the counter equal and one found it moved
C3_Witness ==
    /\ returned # <<>>
    /\ \E v \in 0..MaxConnections : {<<v, FALSE>>, <<v, TRUE>>} \subseteq conn_reads

\* C4: two events of one producer are returned in the order it enqueued them.
C4_PerProducerFifo ==
    \A i \in 1..Len(returned) : \A j \in 1..Len(returned) :
        (i < j /\ returned[i].src = returned[j].src) =>
            returned[i].seq < returned[j].seq

\* A and B of the sync task returned around an event of the network task
C4_Witness ==
    /\ Len(returned) = 3
    /\ returned[1].src = "sync_task" /\ returned[1].seq = 1
    /\ returned[2].src = "network_task"
    /\ returned[3].src = "sync_task" /\ returned[3].seq = 2
    /\ returned[1].ev # returned[3].ev

\* C5: the channel holds at most EventsBuffer events plus one per sender; a
\* send into a channel that holds EventsBuffer events or more does not
\* complete; a stalled send stays stalled while nothing is consumed; one
\* consumption releases the send that stalled first.
C5_Backpressure ==
    [][/\ Len(events_in) <= EventsBuffer + Cardinality(Producers)
       /\ Len(events_in) <= EventsBuffer => events_parked = <<>>
       /\ \A p \in Producers :
            /\ (prod_sent'[p] # prod_sent[p] /\ Len(events_in) >= EventsBuffer) =>
                 (prod_pc'[p] = "flushing" /\ IsParked(events_parked', p))
            /\ (Stalled(p) /\ Len(events_in') >= Len(events_in)) =>
                 (prod_pc'[p] = "flushing" /\ IsParked(events_parked', p))
            /\ (Stalled(p) /\ events_parked[1] = p
                           /\ Len(events_in') < Len(events_in)) =>
                 (prod_pc'[p] = "flushing" /\ ~IsParked(events_parked', p))
      ]_vars

\* two sends stalled, one event consumed: the first is released, the other waits
C5_Witness ==
    /\ svc_pc = "received"
    /\ returned = <<>>
    /\ \E p \in Producers : \E q \in Producers :
         /\ prod_pc[p] = "flushing" /\ ~IsParked(events_parked, p)
         /\ Stalled(q)

\* C6: a call that returned gives Some(hash) exactly when the database held
\* hash at the requested height when the request was serviced, and None when it
\* held nothing there; an answered call never ends in the fatal outcome.
C6_AnswerIsRecord ==
    \A c \in Callers :
        /\ call_pc[c] = "returned" =>
             /\ serviced[c] = <<call_num[c], call_result[c]>>
             /\ call_result[c] \in OptionHashes
        /\ (serviced[c] # <<"pending">> /\ call_pc[c] \notin {"flushing", "awaiting"})
             => call_pc[c] = "returned"

\* height 5 gave Some(0xAA), height 6 gave None, and the record at 5 is gone
C6_Witness ==
    \E c \in Callers : \E d \in Callers :
        /\ call_pc[c] = "returned" /\ call_num[c] = 5
        /\ call_result[c] = Some("0xAA")
        /\ call_pc[d] = "returned" /\ call_num[d] = 6
        /\ call_result[d] = None
        /\ database[5] = None

\* C7: a call whose reply slot was dropped without a value does not return:
\* it is pending or ended in the fatal outcome, never with None or Some.
C7_AbandonedIsFatal ==
    \A c \in Callers :
        reply[c] = SlotDropped =>
            /\ call_pc[c] \in {"flushing", "awaiting", "panicked"}
            /\ call_result[c] = <<"pending">>

\* a living database task dropped a slot and that call panicked, while another
\* call was answered None
C7_Witness ==
    \E c \in Callers : \E d \in Callers :
        /\ db_alive
        /\ reply[c] = SlotDropped /\ call_pc[c] = "panicked"
        /\ call_pc[d] = "returned" /\ call_result[d] = None

\* C8 as stated: a next_event call made after all producers dropped their
\* senders receives no event and ends in the fatal outcome.
C8_ClosedIsFatal ==
    call_view \in {"closed_empty", "closed_buffered"} =>
        (svc_pc \in {"awaiting", "panicked"} /\ event = NoEvent)

\* C8: a next_event call made on a channel that is closed and holds no event
\* receives no event, can resolve at once in the fatal outcome, and once it
\* has, next_event takes no further step.
C8_ClosedEmptyIsFatal ==
    /\ call_view = "closed_empty" =>
         /\ svc_pc \in {"awaiting", "panicked"}
         /\ event = NoEvent
         /\ svc_pc = "awaiting" => ENABLED NextEventClosed
    /\ svc_pc = "panicked" =>
         ~ENABLED (NextEventCall \/ NextEventRecv \/ NextEventUpdate
                   \/ NextEventClosed)

\* events were consumed, the tasks ended, and the next call panicked
C8_Witness ==
    /\ svc_pc = "panicked"
    /\ call_view = "closed_empty"
    /\ returned # <<>>

\* C9 as stated: a fatal condition comes back as an error value and the caller
\* goes on; no calling context is terminated.
C9_FatalIsErrorValue ==
    /\ svc_pc # "panicked"
    /\ \A c \in Callers : call_pc[c] # "panicked"

\* C9: a fatal condition ends the call in a panic: a next_event call on a
\* closed and empty channel, once resolved, has panicked; a query whose slot
\* was dropped, once resolved, has panicked; a panicked call has produced no
\* value and its caller takes no further step.
C9_FatalIsPanic ==
    /\ (call_view = "closed_empty" /\ svc_pc # "awaiting") => svc_pc = "panicked"
    /\ svc_pc = "panicked" => ~ENABLED (NextEventCall \/ NextEventClosed)
    /\ \A c \in Callers :
         /\ (reply[c] = SlotDropped /\ call_pc[c] \notin {"flushing", "awaiting"})
              => call_pc[c] = "panicked"
         /\ call_pc[c] = "panicked" =>
              /\ call_result[c] = <<"pending">>
              /\ ~ENABLED (\E num \in Heights : BlockHashCall(c, num))
              /\ ~ENABLED BlockHashResolve(c)

\* next_event panicked on the closed channel and a query panicked on a
\* dropped slot
C9_Witness ==
    /\ svc_pc = "panicked"
    /\ \E c \in Callers : call_pc[c] = "panicked" /\ reply[c] = SlotDropped

\* C10: the events returned so far, followed by those dequeued or queued and
\* not returned yet, are the events the channel was given, in that order and
\* with every field as enqueued.
C10_ReturnedIsDelivered ==
    delivered = returned \o PendingEntries

\* three events returned, two of them equal and from one producer, one a
\* network event
C10_Witness ==
    /\ Len(returned) = 3
    /\ returned = delivered
    /\ returned[1].ev = returned[2].ev
    /\ returned[1].ev.tag = "NewChainHead"
    /\ returned[3].src = "network_task"

\* the head fields as constructed
InitialHead == <<0, "0x00">>

\* (number, hash) of the last event of kind `tag` in a sequence of returned
\* entries, or `init` when there is none: the left fold of one match arm
RECURSIVE LastOfKind(_, _, _)
LastOfKind(seq, tag, init) ==
    IF seq = <<>> THEN init
    ELSE LET e == seq[Len(seq)].ev IN
           IF e.tag = tag THEN <<e.number, e.hash.h256>>
           ELSE LastOfKind(SubSeq(seq, 1, Len(seq) - 1), tag, init)

\* C12: the finalized head is that of the last NewFinalized event returned,
\* or the construction-time value when none was; both heads are a function of
\* the sequence of returned events alone, so equal sequences give equal heads.
C12_HeadsAreFold ==
    /\ <<finalized_block_number, finalized_block_hash>> =
         LastOfKind(returned, "NewFinalized", InitialHead)
    /\ <<best_block_number, best_block_hash>> =
         LastOfKind(returned, "NewChainHead", InitialHead)

\* a lower finalized head consumed after a higher one, then another event
C12_Witness ==
    /\ Len(returned) = 3
    /\ returned[1].ev = NewFinalized(2, H256("0xAA"))
    /\ returned[2].ev = NewFinalized(1, H256("0xBB"))
    /\ returned[3].ev.tag = "NewChainHead"
    /\ <<finalized_block_number, finalized_block_hash>> = <<1, "0xBB">>

\* C13: the step of next_event that dequeues an event leaves
\* num_network_connections alone; the step that follows it, for an event of
\* any variant, sets num_network_connections to the value the shared counter
\* holds at that step, which is what the accessor gives once the call returned.
C13_LoadAfterDequeue ==
    [][/\ (svc_pc = "awaiting" /\ svc_pc' = "received") =>
            num_network_connections' = num_network_connections
       /\ (svc_pc = "received" /\ svc_pc' = "idle") =>
            /\ num_network_connections' = num_connections_store
            /\ Service_num_network_connections' = num_connections_store'
      ]_vars

\* a call that returned a network event, the counter having moved between
\* the dequeue and the load
C13_Witness ==
    /\ svc_pc = "idle"
    /\ returned # <<>>
    /\ LastReturned.ev.tag \in {"BlockAnnounceReceived", "NewNetworkExternalAddress"}
    /\ conn_at_dequeue # num_network_connections
    /\ num_network_connections = num_connections_store

C20_FatalKeepsSnapshot ==
    [][(svc_pc # "panicked" /\ svc_pc' = "panicked") => UNCHANGED snapshot]_vars

\* the call failed after an event was consumed, while the counter differs
\* from the cached value
C20_Witness ==
    /\ svc_pc = "panicked"
    /\ returned # <<>>
    /\ num_network_connections # num_connections_store
    /\ <<best_block_number, best_block_hash>> # InitialHead

\* requests that wait for the database task's answer, oldest first
Unserviced == db_taken \o to_database

\* the unserviced requests that carry the reply slot of caller c
RequestsOf(c) == {i \in 1..Len(Unserviced) : Unserviced[i].send_back = c}

\* calls that sent their request and have not resolved
Outstanding == {c \in Callers : call_pc[c] \in {"flushing", "awaiting"}}

\* what the Database Request Channel holds at most under backpressure: its
\* buffer and the slot of the sender the service keeps
DbCapacity == DbBuffer + 1

\* C14 as stated: the Database Request Channel never holds more requests
\* than its capacity, and while it holds that many no further request is
\* enqueued.
C14_QueueWithinCapacity ==
    [][/\ Len(to_database) <= DbCapacity
       /\ Len(to_database) >= DbCapacity => Len(to_database') <= Len(to_database)
      ]_vars

\* C14, what the code does: every call enqueues its request at once through
\* its fresh clone and stalls afterwards, so the channel holds up to one
\* request per outstanding call and a stalled call's request is in the queue.
C14_StallAfterEnqueue ==
    /\ Len(to_database) <= Cardinality(Outstanding)
    /\ \A c \in Callers :
         (call_pc[c] = "flushing" /\ IsParked(db_parked, c)) =>
             \E i \in 1..Len(to_database) : to_database[i].send_back = c

\* more requests queued than the capacity, each call stalled after its enqueue
C14_Witness ==
    /\ Len(to_database) > DbCapacity
    /\ \A c \in Callers : call_pc[c] = "flushing" /\ IsParked(db_parked, c)

\* C15: a call sends one request, which carries the height asked for and a
\* reply slot that is still empty while the request is unserviced, and the
\* call consumes one reply at most; once it returned, with None as with a
\* hash, nothing of it is left to service.
C15_OneRequestPerCall ==
    \A c \in Callers :
        /\ call_pc[c] \in {"flushing", "awaiting", "returned"} =>
             call_stats[c].sent = 1
        /\ call_stats[c].sent <= 1
        /\ call_stats[c].received <= 1
        /\ call_pc[c] \in {"flushing", "awaiting"} => call_stats[c].received = 0
        /\ call_pc[c] = "returned" =>
             (call_stats[c].received = 1 /\ RequestsOf(c) = {})
        /\ Cardinality(RequestsOf(c)) <= 1
        /\ \A i \in RequestsOf(c) :
             /\ Unserviced[i].block_number = call_num[c]
             /\ reply[c] = SlotEmpty

\* a call answered None returned while the database task lives: it sent one
\* request, consumed one reply and left nothing queued
C15_Witness ==
    \E c \in Callers :
        /\ db_alive
        /\ call_pc[c] = "returned"
        /\ call_result[c] = None
        /\ call_stats[c] = [sent |-> 1, received |-> 1]
        /\ RequestsOf(c) = {}

\* C18: the value in a caller's reply slot, and the value its call returns,
\* is what the database task read at the height that caller asked for, in
\* whatever order the requests are answered; no two unserviced requests
\* carry the same reply slot.
C18_OwnAnswer ==
    /\ \A c \in Callers :
         /\ reply[c][1] = "value" => serviced[c] = <<call_num[c], reply[c][2]>>
         /\ call_pc[c] = "returned" => reply[c] = SlotValue(call_result[c])
    /\ \A i \in 1..Len(Unserviced) : \A j \in 1..Len(Unserviced) :
         Unserviced[i].send_back = Unserviced[j].send_back => i = j

\* two calls for different heights were outstanding together, the later
\* request was answered first, and each call returned its own answer
C18_Witness ==
    \E c \in Callers : \E d \in Callers :
        /\ overtook[d] /\ ~overtook[c]
        /\ call_pc[c] = "returned" /\ call_num[c] = 5
        /\ call_result[c] = Some("0xAA")
        /\ call_pc[d] = "returned" /\ call_num[d] = 6
        /\ call_result[d] = None

\* C11: a step changes a snapshot field only if it is the step of next_event
\* that follows the dequeue of an event; enqueues, changes of the shared
\* counter, accessor calls and every step of a query leave all five alone.
C11_SnapshotFrame ==
    [][snapshot' # snapshot =>
          (svc_pc = "received" /\ event # NoEvent /\ svc_pc' = "idle")]_vars

\* after an event was enqueued and consumed: the counter moved, the accessor
\* was called and a query returned, the snapshot being that of the consumed
\* event
C11_Witness ==
    /\ svc_pc = "idle"
    /\ Len(returned) = 1
    /\ returned[1].ev = NewChainHead(2, H256("0xAA"), "FastForward")
    /\ num_connections_store # num_network_connections
    /\ conn_reads # {}
    /\ call_pc[1] = "returned"
    /\ best_block_number = 2

\* C16: a pending next_event call completes, with an event or with the fatal
\* outcome, once the channel holds an event or is closed; while the channel
\* is open and empty the call has no step to take.
C16_NextEventLive ==
    /\ (svc_pc = "awaiting" /\ (events_in # <<>> \/ EventsClosed))
          ~> svc_pc \in {"idle", "panicked"}
    /\ []((svc_pc = "awaiting" /\ events_in = <<>> /\ ~EventsClosed) =>
            ~ENABLED (NextEventRecv \/ NextEventClosed))

\* a call made on an open and empty channel received the event enqueued later
C16_Witness ==
    /\ svc_pc = "received"
    /\ call_view = "open_empty"
    /\ returned # <<>>

\* C17: every call that sent its request resolves: it returns, and then its
\* slot holds the database task's answer, or it ends in the fatal outcome,
\* and then its slot was dropped or its send failed; no step of a query
\* waits for the Event Channel, whatever it holds.
C17_QueryLive ==
    \A c \in Callers :
        /\ call_pc[c] \in {"flushing", "awaiting"}
              ~> call_pc[c] \in {"returned", "panicked"}
        /\ [](call_pc[c] = "returned" => reply[c] = SlotValue(call_result[c]))
        /\ [](call_pc[c] = "panicked" => reply[c] \in {SlotDropped, <<"none">>})

\* one call returned and another ended in the fatal outcome while an event
\* sits in the Event Channel and next_event was never called
C17_Witness ==
    \E c \in Callers : \E d \in Callers :
        /\ events_in # <<>>
        /\ svc_pc = "idle" /\ returned = <<>>
        /\ call_pc[c] = "returned"
        /\ call_pc[d] = "panicked" /\ reply[d] = SlotDropped

=============================================================================
